---- MODULE Spec2Model ----
(***************************************************************************)
(* Model of the credential check of nextjs-dashboard (src/auth.ts): the    *)
(* lazily initialised postgres connection (getDb), the user lookup         *)
(* (getUser), the NextAuth Credentials authorize callback, and the query   *)
(* route (second getDb, listInvoices, GET) that follows it in the source.  *)
(*                                                                         *)
(* JavaScript runs each callback to completion: code between two awaits is *)
(* one atomic step.  An authorize call therefore has three steps: from its *)
(* start to the await of the query, from the query's settlement to the     *)
(* await of bcrypt.compare, and from the comparison to the return.         *)
(***************************************************************************)
EXTENDS Integers, Sequences, FiniteSets, TLC

\* ---------------------------------------------------------------- bounds
NCalls == 2        \* concurrent authorize calls
NGets == 1         \* concurrent GET requests on the query route
MaxPwLen == 6      \* longest password tried

\* ------------------------------------------------------ program constants
MinPasswordLen == 6
FetchFailedMsg == "Failed to fetch user."
EnvMissingMsg == "POSTGRES_URL environment variable is not set"
InvalidCredentialsMsg == "Invalid credentials"

Calls == 1..NCalls
Gets == 1..NGets
Modules == {"auth", "query"}

\* Strings the user types are sequences of characters.
AliceEmail == <<"a", "@", "x", ".", "y">>
BobEmail == <<"b", "@", "x", ".", "y">>
CarolEmail == <<"c", "@", "x", ".", "y">>
BadEmail == <<"a", "x", ".", "y">>
Emails == {AliceEmail, CarolEmail, BadEmail}

Repeat(c, n) == [i \in 1..n |-> c]
\* Passwords of every length from one below the minimum, and one more of the
\* minimum length.
Passwords ==
    {Repeat("p", n) : n \in (MinPasswordLen - 1)..MaxPwLen}
        \cup {Repeat("q", MinPasswordLen)}

\* The credentials object handed to authorize: any of the two fields may be
\* missing.
RawCredentials ==
    {[email |-> e, password |-> w] : e \in Emails, w \in Passwords}
        \cup {[email |-> AliceEmail], [password |-> Repeat("p", MinPasswordLen)], <<>>}

\* process.env.POSTGRES_URL; undefined and the empty string are both falsy
\* and are both written "".
EnvValues == {"", "postgres://db/app"}
Falsy(v) == v = ""

\* bcrypt: a hash is a salt and a digest of the password under that salt;
\* compare recomputes the digest with the salt of the stored hash.
Digest(salt, pw) == <<salt, pw>>
BcryptHash(salt, pw) == [salt |-> salt, digest |-> Digest(salt, pw)]
BcryptCompare(pw, hash) == hash.digest = Digest(hash.salt, pw)

\* The users table (rows in storage order).
UsersTable ==
    << [id |-> 2, email |-> BobEmail, name |-> "Bob",
        password |-> BcryptHash("s2", Repeat("q", MinPasswordLen))],
       [id |-> 1, email |-> AliceEmail, name |-> "Alice",
        password |-> BcryptHash("s1", Repeat("p", MinPasswordLen))] >>

\* ------------------------------------------------------ zod schema
Count(s, c) == Cardinality({i \in 1..Len(s) : s[i] = c})
IndexOf(s, c) == CHOOSE i \in 1..Len(s) : s[i] = c /\ \A j \in 1..(i - 1) : s[j] # c

\* z.string().email(): one "@", a non-empty local part, a domain with a dot
\* that neither starts nor ends it.
IsEmail(s) ==
    /\ Count(s, "@") = 1
    /\ LET at == IndexOf(s, "@")
           dom == SubSeq(s, at + 1, Len(s))
       IN /\ at > 1
          /\ Len(dom) >= 3
          /\ Count(dom, ".") >= 1
          /\ dom[1] # "."
          /\ dom[Len(dom)] # "."

IsPasswordOffByOne(s) == Len(s) >= MinPasswordLen - 1

\* z.string().min(6)
IsPassword(s) == Len(s) >= MinPasswordLen

\* z.object({email, password}).safeParse(credentials).success
SafeParseSuccess(c) ==
    /\ "email" \in DOMAIN c
    /\ "password" \in DOMAIN c
    /\ IsEmail(c.email)
    /\ IsPassword(c.password)

\* ------------------------------------------------------ the query
SelectAnyRow(email) == UsersTable

\* SELECT * FROM users WHERE email=${email}
SelectByEmail(email) == SelectSeq(UsersTable, LAMBDA r : r.email = email)

FirstOrPlaceholder(rows) == IF Len(rows) = 0 THEN <<UsersTable[1]>> ELSE <<rows[1]>>

\* user[0]: the first row, or undefined (the empty sequence)
First(rows) == IF Len(rows) = 0 THEN <<>> ELSE <<rows[1]>>

\* ------------------------------------------------------ results
Pending == [kind |-> "pending", value |-> <<>>, message |-> ""]
Return(v) == [kind |-> "return", value |-> v, message |-> ""]
Throw(msg) == [kind |-> "throw", value |-> <<>>, message |-> msg]

VARIABLES
    env,          \* process.env.POSTGRES_URL
    sql,          \* the module-level `sql` of each module: 0 is null
    ctorCalls,    \* number of postgres(...) calls made by each module
    pc,           \* position of each authorize call
    credentials,  \* argument of each authorize call
    parsed,       \* parsedCredentials.success: "none", "ok" or "fail"
    db,           \* connection getDb returned to the call (0: none)
    queries,      \* lookups the call has issued
    user,         \* the local `user`: <<>> or <<row>>
    compares,     \* bcrypt.compare calls the call has made
    result,       \* what the call returned or threw
    logs,         \* console.log lines of the call
    errors,       \* console.error argument of the call ("" if none)
    gpc,          \* position of each GET request
    gdb,          \* connection getDb returned to the request
    response      \* the Response of each GET request

vars == <<env, sql, ctorCalls, pc, credentials, parsed, db, queries, user,
          compares, result, logs, errors, gpc, gdb, response>>

authVars == <<pc, credentials, parsed, db, queries, user, compares, result,
              logs, errors>>
getVars == <<gpc, gdb, response>>

Init ==
    /\ env \in EnvValues
    /\ sql = [m \in Modules |-> 0]
    /\ ctorCalls = [m \in Modules |-> 0]
    /\ pc = [p \in Calls |-> "idle"]
    /\ credentials = [p \in Calls |-> <<>>]
    /\ parsed = [p \in Calls |-> "none"]
    /\ db = [p \in Calls |-> 0]
    /\ queries = [p \in Calls |-> 0]
    /\ user = [p \in Calls |-> <<>>]
    /\ compares = [p \in Calls |-> 0]
    /\ result = [p \in Calls |-> Pending]
    /\ logs = [p \in Calls |-> <<>>]
    /\ errors = [p \in Calls |-> ""]
    /\ gpc = [g \in Gets |-> "idle"]
    /\ gdb = [g \in Gets |-> 0]
    /\ response = [g \in Gets |-> [status |-> 0, body |-> [code |-> ""]]]

\* ------------------------------------------------------ getDb
\* The outcome of getDb() in module m: it throws, or it returns the
\* connection, constructing it when `sql` is null.
GetDbThrows(m) == sql[m] = 0 /\ Falsy(env)

NewConn == ctorCalls["auth"] + ctorCalls["query"] + 1

GetDbAlwaysConstructs(m) ==
    /\ sql' = [sql EXCEPT ![m] = NewConn]
    /\ ctorCalls' = [ctorCalls EXCEPT ![m] = @ + 1]

GetDbReturns(m) ==
    IF sql[m] = 0
    THEN /\ sql' = [sql EXCEPT ![m] = NewConn]
         /\ ctorCalls' = [ctorCalls EXCEPT ![m] = @ + 1]
    ELSE UNCHANGED <<sql, ctorCalls>>


\* ------------------------------------------------------ errors
\* An Error has a message; driver errors also carry an enumerable `code`.
\* The code treats every rejection of the query alike (one catch-all block),
\* so one driver error stands for connection errors and timeouts.
EnvError == [message |-> EnvMissingMsg, code |-> ""]
StorageErrors ==
    {[message |-> "write CONNECT_TIMEOUT", code |-> "CONNECT_TIMEOUT"]}

GetUserCatchSwallows(error) == Return(<<>>)

\* getUser's catch block: whatever was thrown, a new generic Error is thrown.
GetUserCatch(error) == Throw(FetchFailedMsg)

\* ------------------------------------------------------ authorize
AfterLookupDummyCompare(p, outcome) ==
    /\ user' = [user EXCEPT ![p] = outcome.value]
    /\ IF outcome.kind = "throw"
       THEN /\ result' = [result EXCEPT ![p] = outcome]
            /\ pc' = [pc EXCEPT ![p] = "done"]
            /\ UNCHANGED compares
       ELSE /\ compares' = [compares EXCEPT ![p] = @ + 1]
            /\ pc' = [pc EXCEPT ![p] = "compare"]
            /\ UNCHANGED result

\* authorize once getUser has settled: the error propagates, `if (!user)
\* return null`, or bcrypt.compare is started and awaited.
AfterLookup(p, outcome) ==
    /\ user' = [user EXCEPT ![p] = outcome.value]
    /\ IF outcome.kind = "throw"
       THEN /\ result' = [result EXCEPT ![p] = outcome]
            /\ pc' = [pc EXCEPT ![p] = "done"]
            /\ UNCHANGED compares
       ELSE IF outcome.value = <<>>
       THEN /\ result' = [result EXCEPT ![p] = Return(<<>>)]
            /\ pc' = [pc EXCEPT ![p] = "done"]
            /\ UNCHANGED compares
       ELSE /\ compares' = [compares EXCEPT ![p] = @ + 1]
            /\ pc' = [pc EXCEPT ![p] = "compare"]
            /\ UNCHANGED result

\* The fall-through at the end of authorize.
InvalidCredentials(p) ==
    /\ logs' = [logs EXCEPT ![p] = Append(@, InvalidCredentialsMsg)]
    /\ result' = [result EXCEPT ![p] = Return(<<>>)]
    /\ pc' = [pc EXCEPT ![p] = "done"]

\* getUser up to its await: getDb() throws into the catch block, or the
\* query is issued on the connection.
StartLookup(p) ==
    IF GetDbThrows("auth")
    THEN /\ errors' = [errors EXCEPT ![p] = EnvError.message]
         /\ AfterLookup(p, GetUserCatch(EnvError))
         /\ UNCHANGED <<sql, ctorCalls, db, queries, logs>>
    ELSE /\ GetDbReturns("auth")
         /\ db' = [db EXCEPT ![p] = sql'["auth"]]
         /\ queries' = [queries EXCEPT ![p] = @ + 1]
         /\ pc' = [pc EXCEPT ![p] = "query"]
         /\ UNCHANGED <<user, compares, result, logs, errors>>

AuthorizeBodyLooksUpFirst(p, c) ==
    /\ credentials' = [credentials EXCEPT ![p] = c]
    /\ parsed' = [parsed EXCEPT ![p] = IF SafeParseSuccess(c) THEN "ok" ELSE "fail"]
    /\ IF "email" \in DOMAIN c
       THEN StartLookup(p)
       ELSE /\ InvalidCredentials(p)
            /\ UNCHANGED <<sql, ctorCalls, db, queries, user, compares, errors>>

\* authorize from its entry to its first await (or to its return).
AuthorizeBody(p, c) ==
    /\ credentials' = [credentials EXCEPT ![p] = c]
    /\ IF SafeParseSuccess(c)
       THEN /\ parsed' = [parsed EXCEPT ![p] = "ok"]
            /\ StartLookup(p)
       ELSE /\ parsed' = [parsed EXCEPT ![p] = "fail"]
            /\ InvalidCredentials(p)
            /\ UNCHANGED <<sql, ctorCalls, db, queries, user, compares, errors>>

Authorize(p) ==
    /\ pc[p] = "idle"
    /\ \E c \in RawCredentials : AuthorizeBody(p, c)
    /\ UNCHANGED <<env, getVars>>

\* The query resolves with the matching rows.
QueryResolve(p) ==
    /\ pc[p] = "query"
    /\ AfterLookup(p, Return(First(SelectByEmail(credentials[p].email))))
    /\ UNCHANGED <<env, sql, ctorCalls, credentials, parsed, db, queries,
                   logs, errors, getVars>>

\* The query rejects (connection error, timeout).
QueryReject(p) ==
    /\ pc[p] = "query"
    /\ \E error \in StorageErrors :
          /\ errors' = [errors EXCEPT ![p] = error.message]
          /\ AfterLookup(p, GetUserCatch(error))
    /\ UNCHANGED <<env, sql, ctorCalls, credentials, parsed, db, queries,
                   logs, getVars>>

CompareResolveIgnoresMatch(p) ==
    /\ pc[p] = "compare"
    /\ result' = [result EXCEPT ![p] = Return(user[p])]
    /\ pc' = [pc EXCEPT ![p] = "done"]
    /\ UNCHANGED <<env, sql, ctorCalls, credentials, parsed, db, queries,
                   user, compares, errors, logs, getVars>>

\* bcrypt.compare resolves: `if (passwordsMatch) return user`, else the
\* fall-through.
CompareResolve(p) ==
    /\ pc[p] = "compare"
    /\ IF BcryptCompare(credentials[p].password, user[p][1].password)
       THEN /\ result' = [result EXCEPT ![p] = Return(user[p])]
            /\ pc' = [pc EXCEPT ![p] = "done"]
            /\ UNCHANGED logs
       ELSE InvalidCredentials(p)
    /\ UNCHANGED <<env, sql, ctorCalls, credentials, parsed, db, queries,
                   user, compares, errors, getVars>>

\* ------------------------------------------------------ the query route
\* JSON.stringify of a thrown value keeps its enumerable properties only:
\* an Error's message is not one of them.
ErrorJson(error) == [code |-> error.code]

\* GET up to the await in listInvoices.
Get(g) ==
    /\ gpc[g] = "idle"
    /\ IF GetDbThrows("query")
       THEN /\ response' = [response EXCEPT ![g] =
                               [status |-> 500, body |-> ErrorJson(EnvError)]]
            /\ gpc' = [gpc EXCEPT ![g] = "done"]
            /\ UNCHANGED <<sql, ctorCalls, gdb>>
       ELSE /\ GetDbReturns("query")
            /\ gdb' = [gdb EXCEPT ![g] = sql'["query"]]
            /\ gpc' = [gpc EXCEPT ![g] = "query"]
            /\ UNCHANGED response
    /\ UNCHANGED <<env, authVars>>

GetResolve(g) ==
    /\ gpc[g] = "query"
    /\ response' = [response EXCEPT ![g] = [status |-> 200, body |-> [code |-> "rows"]]]
    /\ gpc' = [gpc EXCEPT ![g] = "done"]
    /\ UNCHANGED <<env, sql, ctorCalls, gdb, authVars>>

GetReject(g) ==
    /\ gpc[g] = "query"
    /\ \E error \in StorageErrors :
          response' = [response EXCEPT ![g] =
                          [status |-> 500, body |-> ErrorJson(error)]]
    /\ gpc' = [gpc EXCEPT ![g] = "done"]
    /\ UNCHANGED <<env, sql, ctorCalls, gdb, authVars>>

Next ==
    \/ \E p \in Calls : Authorize(p)
    \/ \E p \in Calls : QueryResolve(p)
    \/ \E p \in Calls : QueryReject(p)
    \/ \E p \in Calls : CompareResolve(p)
    \/ \E g \in Gets : Get(g)
    \/ \E g \in Gets : GetResolve(g)
    \/ \E g \in Gets : GetReject(g)

Spec == Init /\ [][Next]_vars

TypeOK ==
    /\ env \in EnvValues
    /\ \A m \in Modules : sql[m] \in 0..(NCalls + NGets)
    /\ \A p \in Calls :
          /\ pc[p] \in {"idle", "query", "compare", "done"}
          /\ parsed[p] \in {"none", "ok", "fail"}
          /\ result[p].kind \in {"pending", "return", "throw"}
          /\ Len(user[p]) <= 1
    /\ \A g \in Gets : gpc[g] \in {"idle", "query", "done"}


\* ====================================================== properties
Done(p) == pc[p] = "done"

\* The rows storage holds for an email.
RecordsFor(email) ==
    {UsersTable[i] : i \in {j \in DOMAIN UsersTable : UsersTable[j].email = email}}

StoredHashes == {UsersTable[i].password : i \in DOMAIN UsersTable}

\* The input has no email, no password, a password shorter than 6, or an
\* email that is not an address.
Malformed(c) ==
    \/ "email" \notin DOMAIN c
    \/ "password" \notin DOMAIN c
    \/ Len(c.password) < 6
    \/ ~IsEmail(c.email)

Null == Return(<<>>)

\* The call validated its input, its lookup succeeded, and it returned null.
Rejected(p) ==
    /\ Done(p)
    /\ parsed[p] = "ok"
    /\ errors[p] = ""
    /\ result[p] = Null

\* The call returned a user.
Authenticated(p) ==
    /\ Done(p)
    /\ result[p].kind = "return"
    /\ result[p].value # <<>>

\* C1: a finished call with validated input whose lookup succeeded, for an
\* email storage holds a record of whose hash the password matches, returned
\* exactly that record, and the record's email is the input email.
C1_CorrectPasswordAuthenticates ==
    \A p \in Calls :
        (Done(p) /\ parsed[p] = "ok" /\ errors[p] = "") =>
            \A r \in RecordsFor(credentials[p].email) :
                BcryptCompare(credentials[p].password, r.password) =>
                    /\ Authenticated(p)
                    /\ result[p] = Return(<<r>>)
                    /\ result[p].value[1].email = credentials[p].email

C1_Witness ==
    \E p \in Calls :
        /\ Done(p)
        /\ credentials[p] = [email |-> AliceEmail, password |-> Repeat("p", MinPasswordLen)]
        /\ result[p].kind = "return"
        /\ result[p].value # <<>>
        /\ result[p].value[1].id = 1

\* C2: a finished call with validated input whose lookup succeeded, for an
\* email storage holds a record of whose hash the password does not match,
\* returned null and no user.
C2_WrongPasswordRejected ==
    \A p \in Calls :
        (Done(p) /\ parsed[p] = "ok" /\ errors[p] = "") =>
            \A r \in RecordsFor(credentials[p].email) :
                ~BcryptCompare(credentials[p].password, r.password) =>
                    /\ ~Authenticated(p)
                    /\ result[p] = Null

C2_Witness ==
    \E p \in Calls :
        /\ Done(p)
        /\ credentials[p] = [email |-> AliceEmail, password |-> Repeat("q", MinPasswordLen)]
        /\ compares[p] = 1
        /\ result[p] = Null

\* C3 as stated: the outcome of a finished call with malformed input differs
\* from the outcome of every rejected call and is not a user.
C3_MalformedDistinctFromRejected ==
    \A p, q \in Calls :
        (pc[p] # "idle" /\ Malformed(credentials[p]) /\ Rejected(q)) =>
            /\ Done(p)
            /\ ~Authenticated(p)
            /\ result[p] # result[q]

\* C3 as amended: a call with malformed input finishes in its first step,
\* without any storage access, returning null - not a user and not an error,
\* the very value a rejected call returns.
C3_MalformedReturnsNull ==
    \A p \in Calls :
        (pc[p] # "idle" /\ Malformed(credentials[p])) =>
            /\ Done(p)
            /\ parsed[p] = "fail"
            /\ result[p] = Null
            /\ ~Authenticated(p)
            /\ queries[p] = 0
            /\ \A q \in Calls : Rejected(q) => result[p] = result[q]

C3_Witness ==
    \E p, q \in Calls :
        /\ Done(p)
        /\ credentials[p] = [email |-> AliceEmail, password |-> Repeat("p", MinPasswordLen - 1)]
        /\ result[p] = Null
        /\ Rejected(q)

\* C4: a call whose lookup failed ends by throwing the lookup error; it
\* never returns null (the not-found and rejected value) nor a user.
C4_LookupFailureThrows ==
    \A p \in Calls :
        errors[p] # "" =>
            /\ Done(p)
            /\ result[p] = Throw(FetchFailedMsg)
            /\ result[p] # Null
            /\ ~Authenticated(p)

C4_Witness ==
    \E p \in Calls :
        /\ Done(p)
        /\ queries[p] = 1
        /\ errors[p] \in {e.message : e \in StorageErrors}
        /\ result[p].kind = "throw"

\* C5: a finished call with validated input whose lookup succeeded, for an
\* email storage holds no record of, returned null.
C5_UnknownEmailRejected ==
    \A p \in Calls :
        (Done(p) /\ parsed[p] = "ok" /\ errors[p] = ""
            /\ RecordsFor(credentials[p].email) = {}) =>
                result[p] = Null

C5_Witness ==
    \E p \in Calls :
        /\ Done(p)
        /\ credentials[p] = [email |-> CarolEmail, password |-> Repeat("p", MinPasswordLen)]
        /\ queries[p] = 1
        /\ errors[p] = ""
        /\ result[p] = Null

\* C6: a call has obtained a connection or issued a lookup only if its
\* validation has succeeded; a call whose validation failed has made no
\* storage access, and the auth module's connection exists only if some
\* call validated its input.
C6_ValidationBeforeStorage ==
    /\ \A p \in Calls :
          /\ (queries[p] > 0 \/ db[p] # 0 \/ errors[p] # "") => parsed[p] = "ok"
          /\ parsed[p] = "fail" => (queries[p] = 0 /\ db[p] = 0)
    /\ sql["auth"] # 0 => \E p \in Calls : parsed[p] = "ok"

C6_Witness ==
    \E p, q \in Calls :
        /\ parsed[p] = "fail"
        /\ Done(p)
        /\ queries[p] = 0
        /\ parsed[q] = "ok"
        /\ queries[q] = 1

\* C7 as stated: a call that failed because POSTGRES_URL is not set ends
\* with an error other than the one a failed lookup ends with.
C7_ConfigErrorDistinct ==
    \A p \in Calls :
        (Done(p) /\ errors[p] = EnvMissingMsg) =>
            /\ result[p].kind = "throw"
            /\ result[p] # Throw(FetchFailedMsg)

\* C8 as stated: the user a call returns does not carry a stored password
\* hash.
C8_HashNotReturned ==
    \A p \in Calls :
        Authenticated(p) => result[p].value[1].password \notin StoredHashes

\* C9: each module has called postgres(...) at most once; every connection
\* getDb has returned is the module's `sql`; getDb has failed only with
\* `sql` left null.
C9_ConnectionCreatedOnce ==
    /\ \A m \in Modules :
          /\ ctorCalls[m] <= 1
          /\ ctorCalls[m] = 0 <=> sql[m] = 0
    /\ sql["auth"] # 0 => sql["auth"] # sql["query"]
    /\ \A p \in Calls :
          /\ db[p] # 0 => db[p] = sql["auth"]
          /\ errors[p] = EnvMissingMsg => sql["auth"] = 0
    /\ \A g \in Gets :
          /\ gdb[g] # 0 => gdb[g] = sql["query"]
          /\ (gpc[g] = "done" /\ gdb[g] = 0) => sql["query"] = 0

C9_Witness ==
    /\ \A p \in Calls : db[p] # 0 /\ db[p] = sql["auth"]
    /\ ctorCalls["auth"] = 1
    /\ \E p \in Calls : pc[p] = "query"
    /\ \E g \in Gets : gdb[g] # 0

\* C10 as stated: every rejected call has made exactly one hash comparison.
C10_RejectedAlwaysCompares ==
    \A p \in Calls : Rejected(p) => compares[p] = 1

\* C10 as amended: a rejected call has made exactly one hash comparison when
\* its lookup found a user and none when it found no user; a comparison is
\* only ever made against a found user.
C10_RejectedComparesIffFound ==
    \A p \in Calls :
        /\ Rejected(p) => compares[p] = (IF user[p] # <<>> THEN 1 ELSE 0)
        /\ compares[p] > 0 => user[p] # <<>>
        /\ compares[p] <= 1

C10_Witness ==
    \E p, q \in Calls :
        /\ Rejected(p)
        /\ user[p] = <<>>
        /\ compares[p] = 0
        /\ Rejected(q)
        /\ user[q] # <<>>
        /\ compares[q] = 1

====
